---- MODULE Spec2Model ----
(***************************************************************************)
(* The compliance gateway of andreastempereau/audditAI: the policy engine  *)
(* (gateway/src/policy.rs) and the chat request pipeline                    *)
(* (gateway/src/routes.rs) with the audit ledger append                     *)
(* (gateway/src/audit.rs) and the model call (gateway/src/llm_client.rs).   *)
(* The module also holds the data room (gateway/src/data_room.rs with the  *)
(* ingestor's parser, chunker and embedder), the audit ledger under the    *)
(* sealer and the billing aggregator (ledger-seal/src/main.rs,             *)
(* billing/src/main.rs), and the alert bus as section 4.5 of the           *)
(* specification describes it.  The loading of a policy file             *)
(* (PolicyEngine::load_from_path), the document storage on its own         *)
(* (gateway/src/storage.rs) and the sealer await by await, under weak      *)
(* fairness, complete it.  Each part has its own specification over the    *)
(* one list of variables.                                                  *)
(*                                                                         *)
(* Strings are sequences of one-character strings.  An Option<T> is a      *)
(* sequence of length at most one: <<>> is None, <<v>> is Some(v).         *)
(***************************************************************************)
EXTENDS Integers, Sequences, FiniteSets, Bags, TLC

VARIABLES
    rules,      \* PolicyEngine.rules: the ordered, compiled rule list
    text,       \* policy run: the argument of PolicyEngine::apply
    applied,    \* policy run: TRUE once apply has returned
    result,     \* policy run: what apply returned
    pc,         \* chat: per request, the await point the handler is at
    prompt,     \* chat: per request, body.prompt
    fragments,  \* chat: per request, the (id, text) pairs search returned
    rewritten,  \* chat: per request, the text apply returned
    action,     \* chat: per request, the Option<String> apply returned
    resp,       \* chat: per request, Ok(resp) of llm_client::chat
    response,   \* chat: per request, the HTTP response returned
    ledger,     \* the audit_ledger table: rows in commit order
    openai_api_key_empty, \* settings.openai_api_key.is_empty()
    attempts,   \* history: per request, the rows log_chat was called with
    audit_ok,   \* history: per request, the results of those log_chat calls
    model_calls,\* history: per request, the prompts llm_client::chat was called with
    events,     \* history: per request, the steps completed, in order
    search_res, \* history: per request, what data_room::search returned
    alerts,     \* history: the messages published to the alert bus
    files,      \* storage: the names of the files under the storage root
    documents,  \* the documents table: rows in commit order
    chunks,     \* the chunks table: rows in commit order
    next_id,    \* the number of uuids drawn so far (Uuid::new_v4 is fresh)
    upload,     \* data room: the upload_doc handler in flight
    uploads,    \* history: the finished uploads: status, doc_id, pieces, rows
    found,      \* history: the last call of data_room::search and its result
    today,      \* the database's CURRENT_DATE, as a day number
    billing_usage, \* the billing_usage table: a bag of rows
    seal_pc,    \* ledger-seal: where its main is ("tick", "sleep", "exited")
    bill_pc,    \* billing: where its main is ("tick", "sleep", "exited")
    bill_day,   \* billing: the day its last sleep began
    bill_ticks, \* history: per day, the billing statements that succeeded
    resealed,   \* history: an UPDATE of the sealer has run with no row to select
    sub_state,  \* alert bus: per subscriber, "none", "live" or "cancelled"
    queue,      \* alert bus: per subscriber, the messages pending
    received,   \* history: per subscriber, the messages its stream yielded
    lagged,     \* history: per subscriber, whether it lost a message
    since,      \* history: per subscriber, the messages published before it subscribed
    source,     \* policy load: the outcome of reading the file and its rule list
    loaded,     \* policy load: the Result of load_from_path, once it has returned
    saved,      \* history: the ids Storage::save has returned
    listed,     \* the Result of the last Storage::list, with the saves before it
    born        \* history: per ledger row, the sealer's turn at its commit

vars == <<rules, text, applied, result, pc, prompt, fragments, rewritten,
          action, resp, response, ledger, openai_api_key_empty, attempts,
          audit_ok, model_calls, events, search_res, alerts, files,
          documents, chunks, next_id, upload, uploads, found, today,
          billing_usage, seal_pc, bill_pc, bill_day, bill_ticks, resealed,
          sub_state, queue, received, lagged, since, source, loaded,
          saved, listed, born>>

policy_vars == <<text, applied, result>>

chat_vars == <<pc, prompt, fragments, rewritten, action, resp, response,
               ledger, attempts, audit_ok, model_calls, events, search_res,
               alerts>>

room_vars == <<files, documents, chunks, next_id, upload, uploads, found>>

job_vars == <<today, billing_usage, seal_pc, bill_pc, bill_day, bill_ticks,
              resealed>>

bus_vars == <<sub_state, queue, received, lagged, since>>

load_vars == <<source, loaded>>

store_vars == <<saved, listed>>

----------------------------------------------------------------------------
(* Bounds of the model.                                                    *)

MaxRules == 2       \* rules of an engine in the policy runs
MaxTextLen == 3     \* characters of the text given to apply
MaxReq == 2         \* chat requests in flight in one behaviour
MaxRows == 2        \* rows appended to the audit ledger by the ledger runs
MaxDay == 1         \* the last day of the ledger runs (days are 0..MaxDay)
MaxBillTicks == 2   \* billing statements that succeed in one behaviour
MaxSubs == 2        \* subscribers of the alert bus
MaxAlerts == 3      \* messages published to the alert bus in one behaviour
BusCapacity == 2    \* pending messages the bus keeps for a subscriber

SeqsUpTo(S, n) == UNION {[1..k -> S] : k \in 0..n}

Chars == {"a", "b"}

Texts == SeqsUpTo(Chars, MaxTextLen)

(* Patterns are regular expressions of literals and the wildcard ".";     *)
(* the empty pattern is a valid regular expression matching everywhere.   *)
Patterns == {<<"a">>, <<".", "b">>, <<>>}

Actions == {"allow", "rewrite", "block"}

(* Option<String>: None, Some("x") and Some("$0"), the whole match.       *)
Replacements == {<<>>, <<<<"x">>>>, <<<<"$", "0">>>>}

Rule == [pattern : Patterns, action : Actions, replacement : Replacements]

----------------------------------------------------------------------------
(* regex::Regex, as far as the patterns above use it.                      *)

AtomMatches(atom, c) == atom = "." \/ atom = c

(* The pattern matches the text at position i (1-based).                   *)
MatchAt(re, t, i) ==
    /\ i >= 1
    /\ i + Len(re) - 1 <= Len(t)
    /\ \A k \in 1..Len(re) : AtomMatches(re[k], t[i + k - 1])

(* Regex::is_match: an unanchored search.                                  *)
is_match(re, t) == \E i \in 1..(Len(t) + 1) : MatchAt(re, t, i)

(* The start of the leftmost match at or after `from`; 0 when none.        *)
NextMatch(re, t, from) ==
    LET S == {i \in from..(Len(t) + 1) : MatchAt(re, t, i)}
    IN  IF S = {} THEN 0 ELSE CHOOSE i \in S : \A j \in S : i <= j

IsDigit(c) == c \in {"0", "1", "2", "3", "4", "5", "6", "7", "8", "9"}

IsCapLetter(c) == IsDigit(c) \/ c \in {"a", "b", "x", "_"}

(* The length of the longest prefix of s made of capture-name letters.     *)
RECURSIVE CapRefLen(_)
CapRefLen(s) ==
    IF s = <<>> \/ ~IsCapLetter(Head(s)) THEN 0 ELSE 1 + CapRefLen(Tail(s))

(* Captures::expand: "$$" is a dollar sign, "$name" the text of the group  *)
(* name: group 0 is the whole match, and the patterns have no other group, *)
(* so any other reference expands to the empty string; a "$" followed by   *)
(* no name stays as it is.                                                 *)
RECURSIVE expand(_, _)
expand(rep, whole) ==
    IF rep = <<>> THEN <<>>
    ELSE IF Head(rep) # "$" THEN <<Head(rep)>> \o expand(Tail(rep), whole)
    ELSE IF Len(rep) >= 2 /\ rep[2] = "$"
         THEN <<"$">> \o expand(SubSeq(rep, 3, Len(rep)), whole)
    ELSE LET n == CapRefLen(Tail(rep))
             name == SubSeq(rep, 2, n + 1)
             group0 == \A k \in 1..n : name[k] = "0"
         IN  IF n = 0 THEN <<"$">> \o expand(Tail(rep), whole)
             ELSE (IF group0 THEN whole ELSE <<>>)
                  \o expand(SubSeq(rep, n + 2, Len(rep)), whole)

(* Regex::replacen(text, limit, rep): the leftmost non-overlapping matches *)
(* are replaced, all of them when limit = 0, else the first `limit`.  After *)
(* an empty match the search resumes one character further.                *)
RECURSIVE replacen_from(_, _, _, _, _, _, _)
replacen_from(re, t, limit, rep, from, last, n) ==
    LET m == NextMatch(re, t, from)
        e == m + Len(re)
        piece == SubSeq(t, last, m - 1) \o expand(rep, SubSeq(t, m, e - 1))
    IN  IF m = 0 THEN SubSeq(t, last, Len(t))
        ELSE IF limit > 0 /\ n >= limit - 1
             THEN piece \o SubSeq(t, e, Len(t))
        ELSE piece \o replacen_from(re, t, limit, rep,
                                    IF Len(re) = 0 THEN m + 1 ELSE e, e, n + 1)

replacen(re, t, limit, rep) == replacen_from(re, t, limit, rep, 1, 1, 0)

(* Regex::replace: only the first match is replaced.                       *)
replace_first(re, t, rep) == replacen(re, t, 1, rep)

(* Regex::replace_all is replacen with limit 0.                            *)
replace_all(re, t, rep) == replacen(re, t, 0, rep)

----------------------------------------------------------------------------
(* PolicyEngine::apply.                                                    *)

(* The loop of apply from rule i on: the first rule whose regex matches    *)
(* sets the action, substitutes when it carries a replacement, and breaks. *)
(* `evaluated` counts the rules whose regex was run.                       *)
RECURSIVE apply_loop(_, _, _)
apply_loop(rs, t, i) ==
    IF i > Len(rs) THEN [out |-> t, action |-> <<>>, evaluated |-> Len(rs)]
    ELSE IF is_match(rs[i].pattern, t)
         THEN [out |-> IF rs[i].replacement # <<>>
                       THEN replace_all(rs[i].pattern, t, rs[i].replacement[1])
                       ELSE t,
               action |-> <<rs[i].action>>,
               evaluated |-> i]
    ELSE apply_loop(rs, t, i + 1)

(* A loop that does not break: the last matching rule wins.                *)
apply_last_match(rs, t) ==
    LET M == {i \in 1..Len(rs) : is_match(rs[i].pattern, t)}
        l == CHOOSE i \in M : \A j \in M : j <= i
    IN  IF M = {} THEN [out |-> t, action |-> <<>>, evaluated |-> Len(rs)]
        ELSE [out |-> IF rs[l].replacement # <<>>
                      THEN replace_all(rs[l].pattern, t, rs[l].replacement[1])
                      ELSE t,
              action |-> <<rs[l].action>>,
              evaluated |-> Len(rs)]

apply(rs, t) == apply_loop(rs, t, 1)

----------------------------------------------------------------------------
(* The chat handler's data.                                                *)

Reqs == 1..MaxReq

NilOrg == "00000000-0000-0000-0000-000000000000"

Blocked == <<"b", "l", "o", "c", "k", "e", "d">>

ErrText == <<"e", "r", "r">>

NoResponse == [status |-> 0, body |-> <<>>]

NoResult == [out |-> <<>>, action |-> <<>>, evaluated |-> 0]

(* The state of the request handlers before any request has arrived.       *)
ChatIdle ==
    /\ pc = [r \in Reqs |-> "idle"]
    /\ prompt = [r \in Reqs |-> <<>>]
    /\ fragments = [r \in Reqs |-> <<>>]
    /\ rewritten = [r \in Reqs |-> <<>>]
    /\ action = [r \in Reqs |-> <<>>]
    /\ resp = [r \in Reqs |-> <<>>]
    /\ response = [r \in Reqs |-> NoResponse]
    /\ ledger = <<>>
    /\ attempts = [r \in Reqs |-> <<>>]
    /\ audit_ok = [r \in Reqs |-> <<>>]
    /\ model_calls = [r \in Reqs |-> <<>>]
    /\ events = [r \in Reqs |-> <<>>]
    /\ search_res = [r \in Reqs |-> <<>>]
    /\ alerts = <<>>

(* No upload in flight.                                                    *)
NoUpload == [pc |-> "idle", path |-> 0, pieces |-> <<>>, doc_id |-> 0, idx |-> 0,
             len |-> 0]

(* The data room before any upload: an empty storage root and empty        *)
(* tables.                                                                 *)
RoomIdle ==
    /\ files = {}
    /\ documents = <<>>
    /\ chunks = <<>>
    /\ next_id = 0
    /\ upload = NoUpload
    /\ uploads = <<>>
    /\ found = <<>>

Days == 0..MaxDay

(* The background jobs just started on day 0, before their first tick,     *)
(* and an empty billing_usage table.                                       *)
JobsIdle ==
    /\ today = 0
    /\ billing_usage = EmptyBag
    /\ seal_pc = "tick"
    /\ bill_pc = "tick"
    /\ bill_day = 0
    /\ bill_ticks = [d \in Days |-> 0]
    /\ resealed = FALSE
    /\ born = <<>>

Subs == 1..MaxSubs

(* The alert bus with no subscriber yet.                                   *)
BusIdle ==
    /\ sub_state = [s \in Subs |-> "none"]
    /\ queue = [s \in Subs |-> <<>>]
    /\ received = [s \in Subs |-> <<>>]
    /\ lagged = [s \in Subs |-> FALSE]
    /\ since = [s \in Subs |-> 0]

(* No load of a policy file under way.                                     *)
LoadIdle ==
    /\ source = [io |-> "ok", rules |-> <<>>]
    /\ loaded = <<>>

(* The storage root just created: nothing saved, nothing listed.           *)
StoreIdle ==
    /\ saved = <<>>
    /\ listed = <<>>

(* No call of PolicyEngine::apply under way.                               *)
PolicyIdle ==
    /\ text = <<>>
    /\ applied = FALSE
    /\ result = NoResult

(* The engines the chat runs load (config/rules.yaml is any rule list):   *)
(* an allow rule carrying a replacement ahead of a block-everything rule,  *)
(* a block rule ahead of a rewrite rule, and a rewrite rule without a      *)
(* replacement ahead of an allow-everything rule.                          *)
Engines ==
    { << [pattern |-> <<"a">>, action |-> "allow", replacement |-> <<<<"x">>>>],
         [pattern |-> <<>>, action |-> "block", replacement |-> <<>>] >>,
      << [pattern |-> <<".", "b">>, action |-> "block", replacement |-> <<>>],
         [pattern |-> <<"a">>, action |-> "rewrite", replacement |-> <<<<"x">>>>] >>,
      << [pattern |-> <<"a">>, action |-> "rewrite", replacement |-> <<>>],
         [pattern |-> <<>>, action |-> "allow", replacement |-> <<>>] >> }

Prompts == {<<"a">>, <<"b">>, <<"a", "b">>}

(* data_room::search(&state, &body.prompt, 3): an error, or at most        *)
(* SearchLimit (id, text) pairs.  The handler goes on from an empty Ok     *)
(* list exactly as it does from an error, so the Ok results of the chat    *)
(* runs are the non-empty lists.                                           *)
SearchLimit == 3

FragmentLists ==
    { <<>>,
      << [id |-> "f1", text |-> <<"a">>], [id |-> "f2", text |-> <<"b">>] >> }

SearchResults ==
    {[ok |-> FALSE, list |-> <<>>]}
    \cup {[ok |-> TRUE, list |-> l] :
              l \in {f \in FragmentLists : f # <<>> /\ Len(f) <= SearchLimit}}

(* What the remote model may answer: no choice (the empty string) or a     *)
(* text of two words, one of them a two-byte character.                    *)
Responses == {<<>>, <<"o", "k", " ", "é">>}

(* The number of bytes of the UTF-8 encoding of a character.               *)
Utf8Len(c) == IF c = "é" THEN 2 ELSE 1

(* str::len: the length in bytes.                                          *)
RECURSIVE ByteLen(_)
ByteLen(s) == IF s = <<>> THEN 0 ELSE Utf8Len(Head(s)) + ByteLen(Tail(s))

(* `as i32` of a usize below 2^32: the 32 bits read as two's complement.   *)
ToI32(n) == IF n <= 2147483647 THEN n ELSE (n - 2147483647 - 1) - 2147483647 - 1

IsSpace(c) == c \in {" ", "\t", "\n"}

(* str::split_whitespace().count(): the maximal runs of non-blank          *)
(* characters.                                                             *)
WordCount(s) ==
    Cardinality({i \in 1..Len(s) :
                    ~IsSpace(s[i]) /\ (i = 1 \/ IsSpace(s[i - 1]))})

(* The ids and the texts of a fragment list (routes.rs, the two maps).     *)
Ids(frags) == [i \in 1..Len(frags) |-> frags[i].id]

FragmentTexts(frags) == [i \in 1..Len(frags) |-> frags[i].text]

(* llm_client::chat without an API key: format!("local model response to   *)
(* '{}'", prompt).                                                         *)
LocalResponse(p) ==
    <<"l", "o", "c", "a", "l", " ", "m", "o", "d", "e", "l", " ",
      "r", "e", "s", "p", "o", "n", "s", "e", " ", "t", "o", " ", "'">>
    \o p \o <<"'">>

(* The results llm_client::chat can return for a prompt: the local answer  *)
(* without an API key, else the remote answer or an error.                 *)
ModelResults(p) ==
    IF openai_api_key_empty
    THEN {[ok |-> TRUE, body |-> LocalResponse(p)]}
    ELSE {[ok |-> FALSE, body |-> <<>>]}
         \cup {[ok |-> TRUE, body |-> b] : b \in Responses}

(* The row as the table holds it: the columns of the INSERT and ts_start,  *)
(* which the INSERT leaves to the database (the time of the insert).       *)
stamped(row) ==
    [k \in DOMAIN row \cup {"ts_start"} |->
        IF k = "ts_start" THEN today ELSE row[k]]

(* audit::log_chat: one INSERT INTO audit_ledger; on a pool or statement   *)
(* error no row is written.                                                *)
log_chat(l, row, ok) == IF ok THEN Append(l, stamped(row)) ELSE l

(* routes.rs lines 20-23: the fragments the handler goes on with, the      *)
(* empty list when search returned an error.                               *)
recovered(res) == IF res.ok THEN res.list ELSE <<>>

RECURSIVE Concat(_)
Concat(ss) == IF ss = <<>> THEN <<>> ELSE Head(ss) \o Concat(Tail(ss))

(* A policy input made of the retrieved context followed by the prompt.    *)
policy_input_context(p, frags) == Concat(FragmentTexts(frags)) \o p

(* routes.rs line 24: the policy is applied to the raw prompt alone.       *)
policy_input(p, frags) == p

(* routes.rs line 25: action.as_deref() == Some("block").                  *)
is_block(act) == act = <<"block">>

(* The prompt given to the model: lines 30-34 assign `rewritten` to itself *)
(* whatever the action, so it is the text apply returned.                  *)
effective_prompt(out, act) == out

(* The blocked row with the tokens of the answering branch.                *)
block_row_counted(p, frags) ==
    [org_id |-> NilOrg, prompt |-> p, response |-> Blocked,
     tokens |-> ToI32(ByteLen(Blocked)),
     action |-> "block", score |-> <<>>, fragment_ids |-> Ids(frags),
     trace |-> <<>>]

(* The row the blocked branch logs (line 27).                              *)
block_row(p, frags) ==
    [org_id |-> NilOrg, prompt |-> p, response |-> Blocked, tokens |-> 0,
     action |-> "block", score |-> <<>>, fragment_ids |-> Ids(frags),
     trace |-> <<>>]

(* The answered row with resp.chars().count() as tokens.                   *)
allow_row_chars(p, rsp, act, frags, rew) ==
    [org_id |-> NilOrg, prompt |-> p, response |-> rsp,
     tokens |-> ToI32(Len(rsp)),
     action |-> IF act = <<>> THEN "pass" ELSE act[1],
     score |-> <<>>, fragment_ids |-> Ids(frags),
     trace |-> <<[rewritten |-> rew # p]>>]

(* The answered row with the rewritten prompt in place of the raw one.     *)
allow_row_rewritten(p, rsp, act, frags, rew) ==
    [org_id |-> NilOrg, prompt |-> rew, response |-> rsp,
     tokens |-> ToI32(ByteLen(rsp)),
     action |-> IF act = <<>> THEN "pass" ELSE act[1],
     score |-> <<>>, fragment_ids |-> Ids(frags),
     trace |-> <<[rewritten |-> rew # p]>>]

(* The row logged after a model response (line 39).                        *)
allow_row(p, rsp, act, frags, rew) ==
    [org_id |-> NilOrg, prompt |-> p, response |-> rsp,
     tokens |-> ToI32(ByteLen(rsp)),
     action |-> IF act = <<>> THEN "pass" ELSE act[1],
     score |-> <<>>, fragment_ids |-> Ids(frags),
     trace |-> <<[rewritten |-> rew # p]>>]

(* The response of the blocked branch: log_chat(..).await.ok() drops the   *)
(* result of the append (lines 27-28).                                     *)
block_response(ok) == [status |-> 403, body |-> Blocked]

(* The response if the append's error were propagated with `?`.           *)
allow_response_propagated(ok, rsp) ==
    IF ok THEN [status |-> 200, body |-> rsp] ELSE [status |-> 500, body |-> ErrText]

(* The response after a model answer: `let _ =` drops the result of the    *)
(* append (lines 39-40).                                                   *)
allow_response(ok, rsp) == [status |-> 200, body |-> rsp]

(* The response after a model error (line 42).                             *)
error_response == [status |-> 500, body |-> ErrText]

----------------------------------------------------------------------------
(* routes::chat, one action per await point.  Requests are numbered in     *)
(* arrival order.                                                          *)

(* An arrival that starts the model call while search is in flight.        *)
Arrive_model_early(r, p) ==
    /\ pc[r] = "idle"
    /\ \A q \in 1..(r - 1) : pc[q] # "idle"
    /\ pc' = [pc EXCEPT ![r] = "search"]
    /\ prompt' = [prompt EXCEPT ![r] = p]
    /\ events' = [events EXCEPT ![r] = <<"retrieval_start", "model_start">>]
    /\ UNCHANGED <<room_vars, job_vars, rules, policy_vars, bus_vars, load_vars, store_vars, born,
                   openai_api_key_empty, fragments,
                   rewritten, action, resp, response, ledger, attempts,
                   audit_ok, model_calls, search_res, alerts>>

(* A request arrives and the handler calls data_room::search.              *)
Arrive(r, p) ==
    /\ pc[r] = "idle"
    /\ \A q \in 1..(r - 1) : pc[q] # "idle"
    /\ pc' = [pc EXCEPT ![r] = "search"]
    /\ prompt' = [prompt EXCEPT ![r] = p]
    /\ events' = [events EXCEPT ![r] = <<"retrieval_start">>]
    /\ UNCHANGED <<room_vars, job_vars, rules, policy_vars, bus_vars, load_vars, store_vars, born,
                   openai_api_key_empty, fragments,
                   rewritten, action, resp, response, ledger, attempts,
                   audit_ok, model_calls, search_res, alerts>>

(* The handler from the return of search to its next await: an error      *)
(* becomes the empty list, the policy is applied, and the handler calls    *)
(* log_chat (blocked) or the model (otherwise).                            *)
SearchDecide(r, res) ==
    LET frags == recovered(res)
        a == apply(rules, policy_input(prompt[r], frags))
    IN  /\ pc[r] = "search"
        /\ search_res' = [search_res EXCEPT ![r] = <<res>>]
        /\ fragments' = [fragments EXCEPT ![r] = frags]
        /\ rewritten' = [rewritten EXCEPT ![r] = a.out]
        /\ action' = [action EXCEPT ![r] = a.action]
        /\ IF is_block(a.action)
           THEN /\ pc' = [pc EXCEPT ![r] = "block_audit"]
                /\ events' = [events EXCEPT ![r] =
                                 @ \o <<"retrieval_end", "policy", "audit_start">>]
                /\ UNCHANGED model_calls
           ELSE /\ pc' = [pc EXCEPT ![r] = "model"]
                /\ events' = [events EXCEPT ![r] =
                                 @ \o <<"retrieval_end", "policy", "model_start">>]
                /\ model_calls' = [model_calls EXCEPT ![r] =
                       Append(@, [prompt |-> effective_prompt(a.out, a.action),
                                  context |-> FragmentTexts(frags)])]
        /\ UNCHANGED <<room_vars, job_vars, rules, policy_vars, bus_vars, load_vars, store_vars, born,
                   openai_api_key_empty, prompt, resp,
                       response, ledger, attempts, audit_ok, alerts>>

(* A return of search that propagates the error with `?`: the handler      *)
(* answers 500 when search failed.                                         *)
SearchReturn_propagated(r, res) ==
    IF res.ok THEN SearchDecide(r, res)
    ELSE /\ pc[r] = "search"
         /\ search_res' = [search_res EXCEPT ![r] = <<res>>]
         /\ response' = [response EXCEPT ![r] = error_response]
         /\ events' = [events EXCEPT ![r] = @ \o <<"retrieval_end", "respond">>]
         /\ pc' = [pc EXCEPT ![r] = "done"]
         /\ UNCHANGED <<room_vars, job_vars, rules, policy_vars, bus_vars, load_vars, store_vars, born,
                   openai_api_key_empty, prompt,
                        fragments, rewritten, action, resp, ledger, attempts,
                        audit_ok, model_calls, alerts>>

(* search returns (lines 20-37).                                           *)
SearchReturn(r, res) == SearchDecide(r, res)

(* Blocked branch: log_chat returns and the handler answers 403.           *)
BlockAudit(r, ok) ==
    LET row == block_row(prompt[r], fragments[r])
    IN  /\ pc[r] = "block_audit"
        /\ ledger' = log_chat(ledger, row, ok)
        /\ attempts' = [attempts EXCEPT ![r] = Append(@, row)]
        /\ audit_ok' = [audit_ok EXCEPT ![r] = Append(@, ok)]
        /\ response' = [response EXCEPT ![r] = block_response(ok)]
        /\ events' = [events EXCEPT ![r] = @ \o <<"audit_end", "respond">>]
        /\ pc' = [pc EXCEPT ![r] = "done"]
        /\ UNCHANGED <<room_vars, job_vars, rules, policy_vars, bus_vars, load_vars, store_vars, born,
                   openai_api_key_empty, prompt,
                       fragments, rewritten, action, resp, model_calls, search_res,
                       alerts>>

(* A model return that logs a "model_error" row when the call failed.      *)
ModelReturn_logged(r, res) ==
    LET row == [org_id |-> NilOrg, prompt |-> prompt[r], response |-> ErrText,
                tokens |-> 0, action |-> "model_error", score |-> <<>>,
                fragment_ids |-> Ids(fragments[r]), trace |-> <<>>]
    IN  /\ pc[r] = "model"
        /\ IF res.ok
           THEN /\ resp' = [resp EXCEPT ![r] = res.body]
                /\ events' = [events EXCEPT ![r] = @ \o <<"model_ok", "audit_start">>]
                /\ pc' = [pc EXCEPT ![r] = "audit"]
                /\ UNCHANGED <<response, ledger, attempts, audit_ok>>
           ELSE /\ response' = [response EXCEPT ![r] = error_response]
                /\ events' = [events EXCEPT ![r] = @ \o <<"model_err", "respond">>]
                /\ pc' = [pc EXCEPT ![r] = "done"]
                /\ ledger' = log_chat(ledger, row, TRUE)
                /\ attempts' = [attempts EXCEPT ![r] = Append(@, row)]
                /\ audit_ok' = [audit_ok EXCEPT ![r] = Append(@, TRUE)]
                /\ UNCHANGED resp
        /\ UNCHANGED <<room_vars, job_vars, rules, policy_vars, bus_vars, load_vars, store_vars, born,
                   openai_api_key_empty, prompt,
                       fragments, rewritten, action, model_calls, search_res,
                       alerts>>

(* The model call returns: on Ok the handler calls log_chat, on Err it     *)
(* answers 500 and logs nothing.                                           *)
ModelReturn(r, res) ==
    /\ pc[r] = "model"
    /\ IF res.ok
       THEN /\ resp' = [resp EXCEPT ![r] = res.body]
            /\ events' = [events EXCEPT ![r] = @ \o <<"model_ok", "audit_start">>]
            /\ pc' = [pc EXCEPT ![r] = "audit"]
            /\ UNCHANGED response
       ELSE /\ response' = [response EXCEPT ![r] = error_response]
            /\ events' = [events EXCEPT ![r] = @ \o <<"model_err", "respond">>]
            /\ pc' = [pc EXCEPT ![r] = "done"]
            /\ UNCHANGED resp
    /\ UNCHANGED <<room_vars, job_vars, rules, policy_vars, bus_vars, load_vars, store_vars, born,
                   openai_api_key_empty, prompt, fragments,
                   rewritten, action, ledger, attempts, audit_ok, model_calls,
                   search_res, alerts>>

(* Answering branch: log_chat returns and the handler answers 200.         *)
AllowAudit(r, ok) ==
    LET row == allow_row(prompt[r], resp[r], action[r], fragments[r], rewritten[r])
    IN  /\ pc[r] = "audit"
        /\ ledger' = log_chat(ledger, row, ok)
        /\ attempts' = [attempts EXCEPT ![r] = Append(@, row)]
        /\ audit_ok' = [audit_ok EXCEPT ![r] = Append(@, ok)]
        /\ response' = [response EXCEPT ![r] = allow_response(ok, resp[r])]
        /\ events' = [events EXCEPT ![r] = @ \o <<"audit_end", "respond">>]
        /\ pc' = [pc EXCEPT ![r] = "done"]
        /\ UNCHANGED <<room_vars, job_vars, rules, policy_vars, bus_vars, load_vars, store_vars, born,
                   openai_api_key_empty, prompt,
                       fragments, rewritten, action, resp, model_calls, search_res,
                       alerts>>

Init ==
    /\ rules \in Engines
    /\ openai_api_key_empty \in BOOLEAN
    /\ PolicyIdle
    /\ ChatIdle
    /\ RoomIdle
    /\ JobsIdle
    /\ BusIdle
    /\ LoadIdle
    /\ StoreIdle

Next ==
    \E r \in Reqs :
        \/ \E p \in Prompts : Arrive(r, p)
        \/ \E res \in SearchResults : SearchReturn(r, res)
        \/ \E ok \in BOOLEAN : BlockAudit(r, ok)
        \/ \E res \in ModelResults(rewritten[r]) : ModelReturn(r, res)
        \/ \E ok \in BOOLEAN : AllowAudit(r, ok)

Spec == Init /\ [][Next]_vars

----------------------------------------------------------------------------
(* The policy runs: apply on every engine of at most MaxRules rules and    *)
(* every text of at most MaxTextLen characters.                            *)

InitPolicy ==
    /\ rules \in SeqsUpTo(Rule, MaxRules)
    /\ text \in Texts
    /\ applied = FALSE
    /\ result = NoResult
    /\ openai_api_key_empty = TRUE
    /\ ChatIdle
    /\ RoomIdle
    /\ JobsIdle
    /\ BusIdle
    /\ LoadIdle
    /\ StoreIdle

Apply ==
    /\ ~applied
    /\ applied' = TRUE
    /\ result' = apply(rules, text)
    /\ UNCHANGED <<rules, text, openai_api_key_empty, chat_vars, room_vars,
                   job_vars, bus_vars, load_vars, store_vars, born>>

NextPolicy == Apply

SpecPolicy == InitPolicy /\ [][NextPolicy]_vars

----------------------------------------------------------------------------
(* PolicyEngine::load_from_path (policy.rs 35-44): the file is read, its   *)
(* YAML parsed into the rule list, and each rule's pattern compiled in     *)
(* source order; the first `?` that fails returns the error and drops the  *)
(* vector built so far.                                                    *)

(* Patterns Regex::new rejects: an unclosed group and an unopened one.     *)
BadPatterns == {<<"(">>, <<"a", ")">>}

(* The rules a policy file can hold: the rules above, and one rule per     *)
(* pattern that does not compile.                                          *)
SourceRule ==
    Rule \cup [pattern : BadPatterns, action : {"block"}, replacement : {<<>>}]

(* What the file system and the YAML parser make of the path: the file is  *)
(* unreadable ("read"), is not a RawPolicy ("yaml"), or holds a rule list. *)
Sources ==
    [io : {"read", "yaml"}, rules : {<<>>}]
        \cup [io : {"ok"}, rules : SeqsUpTo(SourceRule, MaxRules)]

(* The nesting depth after the pattern's first n characters, -1 once a     *)
(* ")" has closed a group that was never opened.                           *)
RECURSIVE depth(_, _)
depth(p, n) ==
    IF n = 0 THEN 0
    ELSE LET d == depth(p, n - 1)
         IN  IF d < 0 THEN d
             ELSE IF p[n] = "(" THEN d + 1
             ELSE IF p[n] = ")" THEN d - 1
             ELSE d

(* Regex::new(&r.pattern) is Ok: every group is opened and closed.         *)
compiles(p) == depth(p, Len(p)) = 0

LoadErr == [ok |-> FALSE, rules |-> <<>>]

(* A loader that leaves out the rules whose pattern does not compile.      *)
RECURSIVE load_loop_skipping(_, _)
load_loop_skipping(raw, out) ==
    IF raw = <<>> THEN [ok |-> TRUE, rules |-> out]
    ELSE IF compiles(Head(raw).pattern)
         THEN load_loop_skipping(Tail(raw), Append(out, Head(raw)))
         ELSE load_loop_skipping(Tail(raw), out)

(* The for loop of lines 38-42 and the Ok of line 43: `out` is the vector  *)
(* `rules` of the code, raw what is left of raw.rules.                     *)
RECURSIVE load_loop(_, _)
load_loop(raw, out) ==
    IF raw = <<>> THEN [ok |-> TRUE, rules |-> out]
    ELSE IF compiles(Head(raw).pattern)
         THEN load_loop(Tail(raw), Append(out, Head(raw)))
         ELSE LoadErr

load_from_path(src) ==
    IF src.io # "ok" THEN LoadErr ELSE load_loop(src.rules, <<>>)

InitLoad ==
    /\ rules = <<>>
    /\ source \in Sources
    /\ loaded = <<>>
    /\ openai_api_key_empty = TRUE
    /\ PolicyIdle
    /\ ChatIdle
    /\ RoomIdle
    /\ JobsIdle
    /\ BusIdle
    /\ StoreIdle

(* One call of load_from_path; the engine exists only when it is Ok.       *)
Load ==
    /\ loaded = <<>>
    /\ loaded' = <<load_from_path(source)>>
    /\ rules' = IF loaded'[1].ok THEN loaded'[1].rules ELSE rules
    /\ UNCHANGED <<source, policy_vars, openai_api_key_empty, chat_vars,
                   room_vars, job_vars, bus_vars, store_vars, born>>

NextLoad == Load

SpecLoad == InitLoad /\ [][NextLoad]_vars

----------------------------------------------------------------------------
(* The data room (gateway/src/data_room.rs) with the ingestor's parser,    *)
(* chunker and embedder (ingestor/src/pdf.rs, chunks.rs, embed.rs) and the *)
(* storage root (gateway/src/storage.rs).  A uuid is the number of uuids   *)
(* drawn before it plus one.                                               *)

MaxUploads == 2     \* uploads started in one behaviour

(* chunk_text(&text, 50): the words of a chunk.                            *)
ChunkSize == 50

(* embed.rs: the dimension of an embedding.                                *)
DIM == 1536

MinOf(S) == CHOOSE x \in S : \A y \in S : x <= y

MaxOf(S) == CHOOSE x \in S : \A y \in S : y <= x

(* The uploaded bodies: one text operator; two text operators, the second  *)
(* one without its Tj; a body with no opening parenthesis.                 *)
Uploads ==
    { <<"(", "a", ")", "T", "j">>,
      <<"(", " ", "a", " ", "b", ")", "T", "j", "(", "b", ")">>,
      <<"a", ")", "T", "j">> }

(* The queries and the limits search is called with.                       *)
Queries == {<<"a">>, <<"b">>}

Limits == {-1, 0, 1, 5}

(* The outcomes of the two awaits of search: both succeed, pool.get fails, *)
(* the query fails.                                                        *)
Failures == {"none", "pool", "query"}

(* str::split("Tj").                                                       *)
RECURSIVE split_Tj(_, _)
split_Tj(s, cur) ==
    IF s = <<>> THEN <<cur>>
    ELSE IF Len(s) >= 2 /\ s[1] = "T" /\ s[2] = "j"
         THEN <<cur>> \o split_Tj(SubSeq(s, 3, Len(s)), <<>>)
         ELSE split_Tj(Tail(s), Append(cur, Head(s)))

(* str::rfind(c): the last position of c, 0 for None.                      *)
rfind(s, c) ==
    LET at == {i \in 1..Len(s) : s[i] = c}
    IN  IF at = {} THEN 0 ELSE MaxOf(at)

(* s[from..].find(c): the first position of c from `from` on, 0 for None.  *)
find_from(s, from, c) ==
    LET at == {i \in from..Len(s) : s[i] = c}
    IN  IF at = {} THEN 0 ELSE MinOf(at)

(* str::trim.                                                              *)
trim(s) ==
    LET nb == {i \in 1..Len(s) : ~IsSpace(s[i])}
    IN  IF nb = {} THEN <<>> ELSE SubSeq(s, MinOf(nb), MaxOf(nb))

(* pdf::parse, the body of the loop for one part (lines 10-20).            *)
parse_part(out, part) ==
    LET start == rfind(part, "(")
        end == find_from(part, start + 1, ")")
        t == trim(SubSeq(part, start + 1, end - 1))
    IN  IF start = 0 \/ end = 0 \/ t = <<>> THEN out
        ELSE IF out = <<>> THEN t ELSE out \o <<" ">> \o t

RECURSIVE parse_parts(_, _)
parse_parts(out, parts) ==
    IF parts = <<>> THEN out
    ELSE parse_parts(parse_part(out, Head(parts)), Tail(parts))

(* pdf::parse: the texts in parentheses, one per part between Tj           *)
(* operators, joined by blanks.                                            *)
parse(bytes) == parse_parts(<<>>, split_Tj(bytes, <<>>))

(* str::split_whitespace.                                                  *)
RECURSIVE split_whitespace(_, _)
split_whitespace(s, cur) ==
    LET word == IF cur = <<>> THEN <<>> ELSE <<cur>>
    IN  IF s = <<>> THEN word
        ELSE IF IsSpace(Head(s)) THEN word \o split_whitespace(Tail(s), <<>>)
        ELSE split_whitespace(Tail(s), Append(cur, Head(s)))

(* [&str]::join(" ").                                                      *)
RECURSIVE join(_)
join(ws) ==
    IF ws = <<>> THEN <<>>
    ELSE IF Len(ws) = 1 THEN ws[1]
    ELSE ws[1] \o <<" ">> \o join(Tail(ws))

RECURSIVE chunk_words(_, _)
chunk_words(ws, size) ==
    IF ws = <<>> THEN <<>>
    ELSE LET end == IF size < Len(ws) THEN size ELSE Len(ws)
         IN  <<join(SubSeq(ws, 1, end))>>
             \o chunk_words(SubSeq(ws, end + 1, Len(ws)), size)

(* chunks::chunk_text for a positive size: the words in groups of `size`.  *)
chunk_text(t, size) == chunk_words(split_whitespace(t, <<>>), size)

(* The byte of an ASCII character of the texts.                            *)
Byte(c) == CASE c = "a" -> 97 [] c = "b" -> 98 [] c = " " -> 32

RECURSIVE SumOver(_, _)
SumOver(f, S) ==
    IF S = {} THEN 0
    ELSE LET x == CHOOSE y \in S : TRUE IN f[x] + SumOver(f, S \ {x})

(* embed::embed_chunks for one chunk: coordinate i is the sum of the bytes *)
(* at the positions congruent to i modulo DIM.  The vector is kept up to   *)
(* its last non-zero coordinate; the rest of the DIM coordinates are 0.    *)
embed(s) ==
    LET n == IF Len(s) < DIM THEN Len(s) ELSE DIM
    IN  [i \in 1..n |->
            SumOver([j \in 1..Len(s) |-> Byte(s[j])],
                    {j \in 1..Len(s) : (j - 1) % DIM = i - 1})]

(* The square of pgvector's `<->` (Euclidean distance), which orders as    *)
(* the distance does.                                                      *)
distance(u, v) ==
    LET n == IF Len(u) < Len(v) THEN Len(v) ELSE Len(u)
        at(w, i) == IF i <= Len(w) THEN w[i] ELSE 0
    IN  SumOver([i \in 1..n |-> (at(u, i) - at(v, i)) * (at(u, i) - at(v, i))],
                1..n)

(* ORDER BY embedding <-> $1 LIMIT k over the rows `among`: the orders the *)
(* database may return, rows at the same distance in any order.            *)
RECURSIVE nearest(_, _, _, _)
nearest(tab, among, v, k) ==
    IF k <= 0 \/ among = {} THEN {<<>>}
    ELSE LET best == {i \in among : \A j \in among :
                         distance(tab[i].embedding, v)
                             <= distance(tab[j].embedding, v)}
         IN  UNION {{<<i>> \o rest : rest \in nearest(tab, among \ {i}, v, k - 1)}
                        : i \in best}

(* The query without its LIMIT clause.                                     *)
select_nearest_all(tab, v, limit) == nearest(tab, DOMAIN tab, v, Len(tab))

(* SELECT doc_id FROM chunks ORDER BY embedding <-> $1 LIMIT $2.           *)
select_nearest(tab, v, limit) == nearest(tab, DOMAIN tab, v, limit)

(* A search that returns the empty list when an await fails.               *)
search_swallowing(tab, query, limit, fail) ==
    IF fail # "none" \/ limit < 0 THEN {[ok |-> TRUE, list |-> <<>>]}
    ELSE {[ok |-> TRUE, list |-> [i \in 1..Len(o) |-> tab[o[i]].doc_id]]
              : o \in select_nearest(tab, embed(query), limit)}

(* data_room::search: the results it can return.  An error of pool.get or  *)
(* of the query is returned to the caller (the `?` of lines 69 and 75; the *)
(* database rejects a negative LIMIT); else the doc_id column of the       *)
(* selected rows.                                                          *)
search(tab, query, limit, fail) ==
    IF fail # "none" \/ limit < 0 THEN {[ok |-> FALSE, list |-> <<>>]}
    ELSE {[ok |-> TRUE, list |-> [i \in 1..Len(o) |-> tab[o[i]].doc_id]]
              : o \in select_nearest(tab, embed(query), limit)}

(* A chunk row that carries its own id in the doc_id column.               *)
chunk_row_self(id, doc_id, idx, piece) ==
    [id |-> id, org_id |-> NilOrg, doc_id |-> id, chunk_idx |-> idx,
     embedding |-> embed(piece), plaintext |-> piece]

(* The row of INSERT INTO chunks (lines 47-55).                            *)
chunk_row(id, doc_id, idx, piece) ==
    [id |-> id, org_id |-> NilOrg, doc_id |-> doc_id, chunk_idx |-> idx,
     embedding |-> embed(piece), plaintext |-> piece]

(* The row of INSERT INTO documents (lines 30-38), without its digest.     *)
document_row(doc_id, path, len) ==
    [id |-> doc_id, org_id |-> NilOrg, path |-> path,
     mime |-> "application/pdf", bytes |-> ToI32(len)]

(* upload_doc returns: 201 for Ok(()), 500 for an error.                   *)
FinishUpload(status, doc_id, n) ==
    /\ upload' = NoUpload
    /\ uploads' = Append(uploads, [status |-> status, doc_id |-> doc_id,
                                   pieces |-> upload.pieces, chunks |-> n])

(* Storage (storage.rs): the files of the root directory, by name.  save   *)
(* draws a fresh uuid and writes the bytes under it (lines 19-22); when    *)
(* fs::write fails the file is either not there or left behind, created    *)
(* and incomplete.                                                         *)

(* A save that writes every document under one fixed name.                 *)
save_same_name(fs, id) == fs \cup {0}

(* fs::write(&file, bytes) with file = root.join(&id), line 20-21.         *)
save(fs, id) == fs \cup {id}

(* The directories a failed fs::write can leave.                           *)
save_failed(fs, id) == {fs, save(fs, id)}

(* The sequences that hold each element of S once.                         *)
Orders(S) ==
    {o \in [1..Cardinality(S) -> S] : \A i, j \in DOMAIN o : o[i] = o[j] => i = j}

(* Storage::list when no step fails (lines 26-35): the names of the files  *)
(* of the root, in the order read_dir yields them, which is unspecified.   *)
list(fs) == Orders(fs)

(* save_doc lines 12-26: storage.save writes the file under a fresh name;  *)
(* the text is parsed, chunked and embedded; a doc_id is drawn; the        *)
(* handler waits for a connection.                                         *)
SaveFile(b, ok) ==
    /\ upload.pc = "idle"
    /\ Len(uploads) < MaxUploads
    /\ saved' = Append(saved, [id |-> next_id + 1, ok |-> ok])
    /\ IF ok
       THEN /\ files' = save(files, next_id + 1)
            /\ next_id' = next_id + 2
            /\ upload' = [pc |-> "pool", path |-> next_id + 1,
                          pieces |-> chunk_text(parse(b), ChunkSize),
                          doc_id |-> next_id + 2, idx |-> 0,
                          len |-> ByteLen(b)]
            /\ UNCHANGED uploads
       ELSE /\ next_id' = next_id + 1
            /\ FinishUpload(500, 0, 0)
            /\ files' \in save_failed(files, next_id + 1)
    /\ UNCHANGED <<documents, chunks, found>>
    /\ UNCHANGED <<rules, policy_vars, bus_vars, load_vars, listed, born,
                   openai_api_key_empty, chat_vars, job_vars>>

(* save_doc line 27: state.pool.get().await?                               *)
GetClient(ok) ==
    /\ upload.pc = "pool"
    /\ IF ok
       THEN /\ upload' = [upload EXCEPT !.pc = "insert_document"]
            /\ UNCHANGED uploads
       ELSE FinishUpload(500, upload.doc_id, 0)
    /\ UNCHANGED <<files, documents, chunks, next_id, found>>
    /\ UNCHANGED <<rules, policy_vars, bus_vars, load_vars, store_vars, born,
                   openai_api_key_empty, chat_vars, job_vars>>

(* save_doc lines 28-40: the INSERT INTO documents; with no piece the loop *)
(* is empty and save_doc returns Ok(()).                                   *)
InsertDocument(ok) ==
    /\ upload.pc = "insert_document"
    /\ IF ok
       THEN /\ documents' = Append(documents,
                                   document_row(upload.doc_id, upload.path,
                                                upload.len))
            /\ IF upload.pieces = <<>>
               THEN FinishUpload(201, upload.doc_id, 0)
               ELSE /\ upload' = [upload EXCEPT !.pc = "insert_chunk"]
                    /\ UNCHANGED uploads
       ELSE /\ FinishUpload(500, upload.doc_id, 0)
            /\ UNCHANGED documents
    /\ UNCHANGED <<files, chunks, next_id, found>>
    /\ UNCHANGED <<rules, policy_vars, bus_vars, load_vars, store_vars, born,
                   openai_api_key_empty, chat_vars, job_vars>>

(* save_doc lines 42-59: one INSERT INTO chunks of the loop; after the     *)
(* last one save_doc returns Ok(()).                                       *)
InsertChunk(ok) ==
    /\ upload.pc = "insert_chunk"
    /\ IF ok
       THEN /\ chunks' = Append(chunks,
                                chunk_row(next_id + 1, upload.doc_id, upload.idx,
                                          upload.pieces[upload.idx + 1]))
            /\ next_id' = next_id + 1
            /\ IF upload.idx + 1 = Len(upload.pieces)
               THEN FinishUpload(201, upload.doc_id, upload.idx + 1)
               ELSE /\ upload' = [upload EXCEPT !.idx = @ + 1]
                    /\ UNCHANGED uploads
       ELSE /\ next_id' = next_id + 1
            /\ FinishUpload(500, upload.doc_id, upload.idx)
            /\ UNCHANGED chunks
    /\ UNCHANGED <<files, documents, found>>
    /\ UNCHANGED <<rules, policy_vars, bus_vars, load_vars, store_vars, born,
                   openai_api_key_empty, chat_vars, job_vars>>

(* A call of data_room::search and its return.                             *)
Search(query, limit, fail) ==
    /\ \E res \in search(chunks, query, limit, fail) :
          found' = <<[query |-> query, limit |-> limit, fail |-> fail,
                     stored |-> Len(chunks), after |-> Len(uploads),
                     ok |-> res.ok, list |-> res.list]>>
    /\ UNCHANGED <<files, documents, chunks, next_id, upload, uploads>>
    /\ UNCHANGED <<rules, policy_vars, bus_vars, load_vars, store_vars, born,
                   openai_api_key_empty, chat_vars, job_vars>>

InitDataRoom ==
    /\ rules = <<>>
    /\ openai_api_key_empty = TRUE
    /\ PolicyIdle
    /\ ChatIdle
    /\ RoomIdle
    /\ JobsIdle
    /\ BusIdle
    /\ LoadIdle
    /\ StoreIdle

NextDataRoom ==
    \/ \E b \in Uploads, ok \in BOOLEAN : SaveFile(b, ok)
    \/ \E ok \in BOOLEAN : GetClient(ok)
    \/ \E ok \in BOOLEAN : InsertDocument(ok)
    \/ \E ok \in BOOLEAN : InsertChunk(ok)
    \/ \E q \in Queries, l \in Limits, f \in Failures : Search(q, l, f)

SpecDataRoom == InitDataRoom /\ [][NextDataRoom]_vars

----------------------------------------------------------------------------
(* Storage on its own, as tests/data_room.rs save_and_list_documents uses  *)
(* it: calls of save and list on a root that starts empty.                 *)

MaxSaves == 3       \* calls of Storage::save

(* Storage::save (lines 18-23): Ok(id) after the write, or the error of    *)
(* fs::write with the file absent or left behind.                          *)
StorageSave(ok) ==
    /\ Len(saved) < MaxSaves
    /\ next_id' = next_id + 1
    /\ saved' = Append(saved, [id |-> next_id', ok |-> ok])
    /\ files' \in IF ok THEN {save(files, next_id')} ELSE save_failed(files, next_id')
    /\ UNCHANGED <<documents, chunks, upload, uploads, found, listed>>
    /\ UNCHANGED <<rules, policy_vars, bus_vars, load_vars, born,
                   openai_api_key_empty, chat_vars, job_vars>>

(* Storage::list (lines 25-36): the error of read_dir or of an entry, or   *)
(* the file names; `after` keeps the calls of save that came before it.    *)
StorageList(ok) ==
    /\ \E names \in (IF ok THEN list(files) ELSE {<<>>}) :
           listed' = <<[ok |-> ok, names |-> names, after |-> saved]>>
    /\ UNCHANGED <<files, documents, chunks, next_id, upload, uploads, found,
                   saved>>
    /\ UNCHANGED <<rules, policy_vars, bus_vars, load_vars, born,
                   openai_api_key_empty, chat_vars, job_vars>>

InitStorage ==
    /\ rules = <<>>
    /\ openai_api_key_empty = TRUE
    /\ PolicyIdle
    /\ ChatIdle
    /\ RoomIdle
    /\ JobsIdle
    /\ BusIdle
    /\ LoadIdle
    /\ StoreIdle

NextStorage ==
    \/ \E ok \in BOOLEAN : StorageSave(ok)
    \/ \E ok \in BOOLEAN : StorageList(ok)

SpecStorage == InitStorage /\ [][NextStorage]_vars

----------------------------------------------------------------------------
(* The audit ledger under its writers: audit::log_chat, the sealer         *)
(* (ledger-seal/src/main.rs) and the billing aggregator                    *)
(* (billing/src/main.rs).  A jsonb object is a function from its keys; a   *)
(* nullable jsonb column is an Option of one.                              *)

OtherOrg == "11111111-1111-1111-1111-111111111111"

(* The rows log_chat is called with: the blocked row and an answered row   *)
(* of the chat handler, and an answered row of a second organization.      *)
AuditRows ==
    { block_row(<<"a">>, <<>>),
      allow_row(<<"a">>, <<"o", "k">>, <<"rewrite">>, <<>>, <<"x">>),
      [allow_row(<<"b">>, <<"o">>, <<>>, <<>>, <<"b">>) EXCEPT !.org_id = OtherOrg] }

(* The outcomes of a tick: both awaits succeed, pool.get fails, the        *)
(* statement fails.                                                        *)
TickOutcomes == {"ok", "pool", "statement"}

(* A selection of the rows whose trace column is NULL.                     *)
selected_null_trace(row) == row.trace = <<>>

(* trace->>'sealed' IS NULL: the column is NULL or the object has no       *)
(* sealed key.                                                             *)
selected(row) == row.trace = <<>> \/ "sealed" \notin DOMAIN row.trace[1]

(* coalesce(trace, '{}'::jsonb).                                           *)
coalesce(trace) == IF trace = <<>> THEN <<>> ELSE trace[1]

(* A concatenation that keeps the right-hand object only.                  *)
jsonb_concat_right(a, b) == b

(* jsonb || jsonb on two objects: the union of the keys, the right-hand    *)
(* value for a key of both.                                                *)
jsonb_concat(a, b) ==
    [k \in DOMAIN a \cup DOMAIN b |-> IF k \in DOMAIN b THEN b[k] ELSE a[k]]

(* The SET clause of the sealer's UPDATE on one row.                       *)
seal_row(row) ==
    [row EXCEPT !.trace = <<jsonb_concat(coalesce(row.trace), [sealed |-> TRUE])>>]

(* An UPDATE that passes over the newest row.                              *)
seal_all_but_last(l) ==
    [i \in DOMAIN l |-> IF i < Len(l) /\ selected(l[i]) THEN seal_row(l[i]) ELSE l[i]]

(* The sealer's UPDATE: every selected row is set, in one statement.       *)
seal_all(l) == [i \in DOMAIN l |-> IF selected(l[i]) THEN seal_row(l[i]) ELSE l[i]]

RECURSIVE sum_tokens(_)
sum_tokens(l) == IF l = <<>> THEN 0 ELSE Head(l).tokens + sum_tokens(Tail(l))

(* WHERE ts_start >= CURRENT_DATE AND ts_start < CURRENT_DATE + 1 day,     *)
(* for one org_id of the GROUP BY.                                         *)
entries_of(l, org, day) ==
    SelectSeq(l, LAMBDA row : row.org_id = org /\ row.ts_start = day)

(* SELECT org_id, CURRENT_DATE, SUM(tokens) ... GROUP BY org_id: one row   *)
(* for each org_id with an entry of the day.                               *)
usage_rows(l, day) ==
    { [org_id |-> org, ts |-> day, tokens |-> sum_tokens(entries_of(l, org, day))]
          : org \in {l[i].org_id : i \in {j \in DOMAIN l : l[j].ts_start = day}} }

(* An insert that replaces the rows of the same (org_id, ts).              *)
upsert_usage(usage, rows) ==
    LET kept == {u \in BagToSet(usage) :
                    \A r \in rows : r.org_id # u.org_id \/ r.ts # u.ts}
    IN  [u \in kept |-> usage[u]] (+) SetToBag(rows)

(* INSERT INTO billing_usage ... SELECT: the rows are added; nothing of    *)
(* the statement looks at the rows the table holds.                        *)
insert_usage(usage, rows) == usage (+) SetToBag(rows)

(* A call of audit::log_chat (by any handler) and its return.              *)
LogChat(row, ok) ==
    /\ Len(ledger) < MaxRows
    /\ ledger' = log_chat(ledger, row, ok)
    /\ UNCHANGED <<rules, policy_vars, bus_vars, load_vars, store_vars, born,
                   openai_api_key_empty, room_vars, job_vars>>
    /\ UNCHANGED <<pc, prompt, fragments, rewritten, action, resp, response,
                   attempts, audit_ok, model_calls, events, search_res, alerts>>

(* ledger-seal, one turn of the loop (lines 14-21): pool.get and the       *)
(* UPDATE, then the sleep; an error of either leaves main through `?`.     *)
SealTick(outcome) ==
    /\ seal_pc = "tick"
    /\ IF outcome = "ok"
       THEN /\ ledger' = seal_all(ledger)
            /\ seal_pc' = "sleep"
            /\ resealed' = (resealed \/ (ledger # <<>> /\ \A i \in DOMAIN ledger :
                                                           ~selected(ledger[i])))
       ELSE /\ seal_pc' = "exited"
            /\ UNCHANGED <<ledger, resealed>>
    /\ UNCHANGED <<rules, policy_vars, bus_vars, load_vars, store_vars, born,
                   openai_api_key_empty, room_vars>>
    /\ UNCHANGED <<today, billing_usage, bill_pc, bill_day, bill_ticks>>
    /\ UNCHANGED <<pc, prompt, fragments, rewritten, action, resp, response,
                   attempts, audit_ok, model_calls, events, search_res, alerts>>

(* ledger-seal line 21: the sleep of 3600 seconds ends.                    *)
SealWake ==
    /\ seal_pc = "sleep"
    /\ seal_pc' = "tick"
    /\ UNCHANGED <<rules, policy_vars, bus_vars, load_vars, store_vars, born,
                   openai_api_key_empty, room_vars, chat_vars>>
    /\ UNCHANGED <<today, billing_usage, bill_pc, bill_day, bill_ticks, resealed>>

(* ledger-seal is started again after its main returned or was stopped.    *)
SealStart ==
    /\ seal_pc \in {"sleep", "exited"}
    /\ seal_pc' = "tick"
    /\ UNCHANGED <<rules, policy_vars, bus_vars, load_vars, store_vars, born,
                   openai_api_key_empty, room_vars, chat_vars>>
    /\ UNCHANGED <<today, billing_usage, bill_pc, bill_day, bill_ticks, resealed>>

(* billing, one turn of the loop (lines 14-25): pool.get and the INSERT,   *)
(* then the sleep; an error of either leaves main through `?`.             *)
BillingTick(outcome) ==
    /\ bill_pc = "tick"
    /\ IF outcome = "ok"
       THEN /\ SumOver(bill_ticks, Days) < MaxBillTicks
            /\ billing_usage' = insert_usage(billing_usage, usage_rows(ledger, today))
            /\ bill_pc' = "sleep"
            /\ bill_day' = today
            /\ bill_ticks' = [bill_ticks EXCEPT ![today] = @ + 1]
       ELSE /\ bill_pc' = "exited"
            /\ UNCHANGED <<billing_usage, bill_day, bill_ticks>>
    /\ UNCHANGED <<rules, policy_vars, bus_vars, load_vars, store_vars, born,
                   openai_api_key_empty, room_vars, chat_vars>>
    /\ UNCHANGED <<today, seal_pc, resealed>>

(* billing line 25: the sleep of 86400 seconds ends, a day after it began. *)
BillingWake ==
    /\ bill_pc = "sleep"
    /\ today > bill_day
    /\ bill_pc' = "tick"
    /\ UNCHANGED <<rules, policy_vars, bus_vars, load_vars, store_vars, born,
                   openai_api_key_empty, room_vars, chat_vars>>
    /\ UNCHANGED <<today, billing_usage, seal_pc, bill_day, bill_ticks, resealed>>

(* billing is started again after its main returned or was stopped.        *)
BillingStart ==
    /\ bill_pc \in {"sleep", "exited"}
    /\ bill_pc' = "tick"
    /\ UNCHANGED <<rules, policy_vars, bus_vars, load_vars, store_vars, born,
                   openai_api_key_empty, room_vars, chat_vars>>
    /\ UNCHANGED <<today, billing_usage, seal_pc, bill_day, bill_ticks, resealed>>

(* Midnight: CURRENT_DATE moves to the next day.                           *)
NextDay ==
    /\ today < MaxDay
    /\ today' = today + 1
    /\ UNCHANGED <<rules, policy_vars, bus_vars, load_vars, store_vars, born,
                   openai_api_key_empty, room_vars, chat_vars>>
    /\ UNCHANGED <<billing_usage, seal_pc, bill_pc, bill_day, bill_ticks, resealed>>

InitLedger ==
    /\ rules = <<>>
    /\ openai_api_key_empty = TRUE
    /\ PolicyIdle
    /\ ChatIdle
    /\ RoomIdle
    /\ JobsIdle
    /\ BusIdle
    /\ LoadIdle
    /\ StoreIdle

NextLedger ==
    \/ \E row \in AuditRows, ok \in BOOLEAN : LogChat(row, ok)
    \/ \E outcome \in TickOutcomes : SealTick(outcome)
    \/ SealWake
    \/ SealStart
    \/ \E outcome \in TickOutcomes : BillingTick(outcome)
    \/ BillingWake
    \/ BillingStart
    \/ NextDay

SpecLedger == InitLedger /\ [][NextLedger]_vars

----------------------------------------------------------------------------
(* The sealer next to the appends, await by await (ledger-seal main.rs     *)
(* 13-22).  A turn of the loop starts with pool.get ("tick"), sends the    *)
(* UPDATE ("execute"), which the database runs as one statement over the   *)
(* rows committed by then ("done"), and ends when execute returns and the  *)
(* sleep begins ("sleep").  born keeps, for each row, whether a turn was   *)
(* under way at its commit and how many turns have ended since (0, 1, or   *)
(* 2 for more).                                                            *)

TurnUnderWay == seal_pc \in {"execute", "done"}

(* audit::log_chat commits its INSERT.                                     *)
Commit(row) ==
    /\ Len(ledger) < MaxRows
    /\ ledger' = log_chat(ledger, row, TRUE)
    /\ born' = Append(born, [during |-> TurnUnderWay, ended |-> 0])
    /\ UNCHANGED <<rules, policy_vars, bus_vars, load_vars, store_vars,
                   openai_api_key_empty, room_vars, job_vars>>
    /\ UNCHANGED <<pc, prompt, fragments, rewritten, action, resp, response,
                   attempts, audit_ok, model_calls, events, search_res, alerts>>

(* line 14: pool.get().await?                                              *)
SealGet(ok) ==
    /\ seal_pc = "tick"
    /\ seal_pc' = IF ok THEN "execute" ELSE "exited"
    /\ UNCHANGED <<rules, policy_vars, bus_vars, load_vars, store_vars, born,
                   openai_api_key_empty, room_vars, chat_vars>>
    /\ UNCHANGED <<today, billing_usage, bill_pc, bill_day, bill_ticks, resealed>>

(* lines 15-20: the database runs the UPDATE, or execute fails and `?`     *)
(* leaves main.                                                            *)
SealExecute(ok) ==
    /\ seal_pc = "execute"
    /\ IF ok
       THEN /\ ledger' = seal_all(ledger)
            /\ seal_pc' = "done"
       ELSE /\ seal_pc' = "exited"
            /\ UNCHANGED ledger
    /\ UNCHANGED <<rules, policy_vars, bus_vars, load_vars, store_vars, born,
                   openai_api_key_empty, room_vars>>
    /\ UNCHANGED <<today, billing_usage, bill_pc, bill_day, bill_ticks, resealed>>
    /\ UNCHANGED <<pc, prompt, fragments, rewritten, action, resp, response,
                   attempts, audit_ok, model_calls, events, search_res, alerts>>

(* lines 20-21: execute has returned Ok, the turn ends and the sleep       *)
(* begins.                                                                 *)
SealReturn ==
    /\ seal_pc = "done"
    /\ seal_pc' = "sleep"
    /\ born' = [i \in DOMAIN born |->
                   [born[i] EXCEPT !.ended = MinOf({born[i].ended + 1, 2})]]
    /\ UNCHANGED <<rules, policy_vars, bus_vars, load_vars, store_vars,
                   openai_api_key_empty, room_vars, chat_vars>>
    /\ UNCHANGED <<today, billing_usage, bill_pc, bill_day, bill_ticks, resealed>>

NextSealer ==
    \/ \E row \in AuditRows : Commit(row)
    \/ \E ok \in BOOLEAN : SealGet(ok)
    \/ \E ok \in BOOLEAN : SealExecute(ok)
    \/ SealReturn
    \/ SealWake
    \/ SealStart

(* The runtime resumes the sealer when an await is ready: pool.get and     *)
(* execute return with some outcome, and the sleep ends.  Whether a turn   *)
(* succeeds, and whether the job is started again once main has returned,  *)
(* is left open.                                                           *)
SpecSealerLive ==
    /\ InitLedger
    /\ [][NextSealer]_vars
    /\ WF_vars(\E ok \in BOOLEAN : SealGet(ok))
    /\ WF_vars(\E ok \in BOOLEAN : SealExecute(ok))
    /\ WF_vars(SealReturn)
    /\ WF_vars(SealWake)

----------------------------------------------------------------------------
(* The alert bus (section 4.5): publish(message) and subscribe(), a        *)
(* bounded buffer of pending messages for each subscriber, the oldest      *)
(* pending message lost when a subscriber falls behind.                    *)

AlertMessages == {"blocked:x", "blocked:y"}

(* A buffer that takes the new message ahead of the pending ones.          *)
enqueue_front(q, m) ==
    IF Len(q) < BusCapacity THEN <<m>> \o q ELSE <<m>> \o SubSeq(q, 1, Len(q) - 1)

(* The pending messages of one subscriber after a publish: the message is  *)
(* added last; at capacity the oldest pending message is dropped.          *)
enqueue(q, m) ==
    IF Len(q) < BusCapacity THEN Append(q, m) ELSE Append(Tail(q), m)

(* publish(message): never blocks and never fails; every subscriber that   *)
(* is subscribed gets the message, nobody else does.                       *)
Publish(m) ==
    /\ Len(alerts) < MaxAlerts
    /\ alerts' = Append(alerts, m)
    /\ queue' = [s \in Subs |->
                    IF sub_state[s] = "live" THEN enqueue(queue[s], m) ELSE queue[s]]
    /\ lagged' = [s \in Subs |->
                     lagged[s] \/ (sub_state[s] = "live" /\ Len(queue[s]) = BusCapacity)]
    /\ UNCHANGED <<sub_state, received, since>>
    /\ UNCHANGED <<rules, policy_vars, load_vars, store_vars, born,
                   openai_api_key_empty, room_vars, job_vars>>
    /\ UNCHANGED <<pc, prompt, fragments, rewritten, action, resp, response,
                   ledger, attempts, audit_ok, model_calls, events, search_res>>

(* subscribe(): a new live stream of the messages published from now on.   *)
Subscribe(s) ==
    /\ sub_state[s] = "none"
    /\ sub_state' = [sub_state EXCEPT ![s] = "live"]
    /\ since' = [since EXCEPT ![s] = Len(alerts)]
    /\ UNCHANGED <<queue, received, lagged>>
    /\ UNCHANGED <<rules, policy_vars, load_vars, store_vars, born,
                   openai_api_key_empty, room_vars, job_vars,
                   chat_vars>>

(* The stream of a subscriber yields its oldest pending message.           *)
Receive(s) ==
    /\ sub_state[s] = "live"
    /\ queue[s] # <<>>
    /\ received' = [received EXCEPT ![s] = Append(@, Head(queue[s]))]
    /\ queue' = [queue EXCEPT ![s] = Tail(@)]
    /\ UNCHANGED <<sub_state, lagged, since>>
    /\ UNCHANGED <<rules, policy_vars, load_vars, store_vars, born,
                   openai_api_key_empty, room_vars, job_vars,
                   chat_vars>>

(* A subscription is cancelled (its consumer disconnects): that stream     *)
(* ends, the other ones and the publishers are not affected.               *)
Cancel(s) ==
    /\ sub_state[s] = "live"
    /\ sub_state' = [sub_state EXCEPT ![s] = "cancelled"]
    /\ queue' = [queue EXCEPT ![s] = <<>>]
    /\ UNCHANGED <<received, lagged, since>>
    /\ UNCHANGED <<rules, policy_vars, load_vars, store_vars, born,
                   openai_api_key_empty, room_vars, job_vars,
                   chat_vars>>

InitAlertBus ==
    /\ rules = <<>>
    /\ openai_api_key_empty = TRUE
    /\ PolicyIdle
    /\ ChatIdle
    /\ RoomIdle
    /\ JobsIdle
    /\ BusIdle
    /\ LoadIdle
    /\ StoreIdle

NextAlertBus ==
    \/ \E m \in AlertMessages : Publish(m)
    \/ \E s \in Subs : Subscribe(s)
    \/ \E s \in Subs : Receive(s)
    \/ \E s \in Subs : Cancel(s)

SpecAlertBus == InitAlertBus /\ [][NextAlertBus]_vars

----------------------------------------------------------------------------
(* Properties of PolicyEngine::apply.                                      *)

(* The indices of the rules whose pattern matches the text.                *)
Matching == {i \in 1..Len(rules) : is_match(rules[i].pattern, text)}

(* i is the first rule in load order whose pattern matches the text.       *)
IsFirstMatch(i) == i \in Matching /\ \A j \in Matching : i <= j

(* C1: apply returns the action of the first rule in load order whose      *)
(* pattern matches the text, and runs the regex of no rule after it; when  *)
(* no rule matches it returns no action.                                   *)
C1_FirstMatchWins ==
    applied =>
        /\ Matching = {} => result.action = <<>> /\ result.evaluated = Len(rules)
        /\ \A i \in Matching :
              IsFirstMatch(i) =>
                  /\ result.action = <<rules[i].action>>
                  /\ result.evaluated = i

(* C1 witness: apply has run on an engine whose two rules both match, with *)
(* different actions, so that the later rule would override the earlier.   *)
C1_Witness ==
    /\ applied
    /\ Matching = {1, 2}
    /\ rules[1].action # rules[2].action
    /\ result.action = <<rules[1].action>>

(* The occurrences of the pattern in t: position i starts an occurrence    *)
(* when the pattern matches there and no occurrence chosen to its left     *)
(* overlaps it.                                                            *)
Occurrences(re, t) ==
    LET sel[i \in 1..(Len(t) + 1)] ==
            /\ MatchAt(re, t, i)
            /\ \A j \in 1..(i - 1) : j > i - Len(re) => ~sel[j]
    IN  {i \in 1..(Len(t) + 1) : sel[i]}

(* t with every occurrence of the pattern replaced: position by position,  *)
(* what an occurrence starting there is replaced by, then the character    *)
(* there unless an occurrence covers it.  The replacement is taken as it   *)
(* is written (literal) or with its "$" references expanded.               *)
RECURSIVE SubstituteFrom(_, _, _, _, _)
SubstituteFrom(re, t, rep, literal, i) ==
    LET occ == Occurrences(re, t)
        covered == \E m \in occ : m <= i /\ i < m + Len(re)
        put == IF i \notin occ THEN <<>>
               ELSE IF literal THEN rep
               ELSE expand(rep, SubSeq(t, i, i + Len(re) - 1))
        keep == IF i <= Len(t) /\ ~covered THEN <<t[i]>> ELSE <<>>
    IN  IF i > Len(t) + 1 THEN <<>>
        ELSE put \o keep \o SubstituteFrom(re, t, rep, literal, i + 1)

Substituted(re, t, rep, literal) == SubstituteFrom(re, t, rep, literal, 1)

(* C6 as stated: when the first matching rule is a rewrite rule, the       *)
(* output is the input with every occurrence of its pattern replaced by    *)
(* its replacement text, and the action is "rewrite".                      *)
C6_Original ==
    applied =>
        \A i \in Matching :
            (IsFirstMatch(i) /\ rules[i].action = "rewrite"
                             /\ rules[i].replacement # <<>>) =>
                /\ result.action = <<"rewrite">>
                /\ result.out = Substituted(rules[i].pattern, text,
                                            rules[i].replacement[1], TRUE)

(* C6 amended: when the first matching rule is a rewrite rule, the action  *)
(* is "rewrite"; if the rule carries a replacement the output is the input *)
(* with every occurrence of its pattern replaced by the replacement with   *)
(* its "$" references expanded, and if it carries none the output is the   *)
(* input unchanged.                                                        *)
C6_RewriteAll ==
    applied =>
        \A i \in Matching :
            (IsFirstMatch(i) /\ rules[i].action = "rewrite") =>
                /\ result.action = <<"rewrite">>
                /\ result.out =
                       IF rules[i].replacement = <<>> THEN text
                       ELSE Substituted(rules[i].pattern, text,
                                        rules[i].replacement[1], FALSE)

(* C6 witness: a rewrite rule with a replacement has been applied to a     *)
(* text holding at least two occurrences of its pattern.                   *)
C6_Witness ==
    /\ applied
    /\ \E i \in Matching :
          /\ IsFirstMatch(i)
          /\ rules[i].action = "rewrite"
          /\ rules[i].replacement # <<>>
          /\ Cardinality(Occurrences(rules[i].pattern, text)) >= 2
          /\ result.out # text

----------------------------------------------------------------------------
(* Properties of routes::chat.                                             *)

Done(r) == pc[r] = "done"

(* The rules matching the raw prompt of a request, the first of them, and  *)
(* whether that first rule is a block rule.                                *)
MatchingPrompt(r) == {i \in 1..Len(rules) : is_match(rules[i].pattern, prompt[r])}

FirstMatching(r) == CHOOSE i \in MatchingPrompt(r) : \A j \in MatchingPrompt(r) : i <= j

MatchedBlock(r) ==
    MatchingPrompt(r) # {} /\ rules[FirstMatching(r)].action = "block"

Decided(r) == pc[r] \notin {"idle", "search"}

ModelFailed(r) == \E i \in 1..Len(events[r]) : events[r][i] = "model_err"

ModelAnswered(r) == \E i \in 1..Len(events[r]) : events[r][i] = "model_ok"

(* C2: a request whose matched action is block never calls the model, and  *)
(* once it is done it has answered 403 and attempted exactly one audit     *)
(* append, with action "block", tokens 0 and the ids of the fragments      *)
(* retrieved.                                                              *)
C2_BlockShortCircuits ==
    \A r \in Reqs :
        (Decided(r) /\ MatchedBlock(r)) =>
            /\ model_calls[r] = <<>>
            /\ Len(attempts[r]) <= 1
            /\ Done(r) =>
                  /\ response[r].status = 403
                  /\ Len(attempts[r]) = 1
                  /\ attempts[r][1].action = "block"
                  /\ attempts[r][1].tokens = 0
                  /\ attempts[r][1].fragment_ids = Ids(fragments[r])

(* C2 witness: a blocked request that retrieved fragments has answered.    *)
C2_Witness ==
    \E r \in Reqs :
        /\ Done(r)
        /\ MatchedBlock(r)
        /\ fragments[r] # <<>>
        /\ response[r].status = 403
        /\ attempts[r][1].fragment_ids = <<"f1", "f2">>

(* C3: a request never attempts more than one audit append; one that ends  *)
(* blocked (403) or with a model response (200) has attempted exactly one; *)
(* one whose model call failed has attempted none and answered 500.        *)
C3_OneAuditAttempt ==
    \A r \in Reqs :
        /\ Len(attempts[r]) <= 1
        /\ Done(r) => response[r].status \in {200, 403, 500}
        /\ (Done(r) /\ response[r].status \in {200, 403}) => Len(attempts[r]) = 1
        /\ (Done(r) /\ MatchedBlock(r)) => response[r].status = 403
        /\ (Done(r) /\ ModelAnswered(r)) => response[r].status = 200
        /\ ModelFailed(r) =>
              /\ Done(r)
              /\ attempts[r] = <<>>
              /\ response[r].status = 500

(* C3 witness: one request's model call has failed and another request     *)
(* has been answered by the model.                                         *)
C3_Witness ==
    \E r, q \in Reqs :
        /\ Done(r) /\ ModelFailed(r)
        /\ Done(q) /\ ModelAnswered(q) /\ Len(attempts[q]) = 1

(* C4: whether the audit append succeeded or failed, a blocked request     *)
(* answers 403 and a request the model answered returns that answer.       *)
C4_AuditFailureInvisible ==
    \A r \in Reqs :
        (Done(r) /\ attempts[r] # <<>>) =>
            \A ok \in BOOLEAN :
                audit_ok[r] = <<ok>> =>
                    /\ MatchedBlock(r) =>
                          response[r] = [status |-> 403, body |-> Blocked]
                    /\ ~MatchedBlock(r) =>
                          response[r] = [status |-> 200, body |-> resp[r]]

(* C4 witness: the audit append has failed for a blocked request and for   *)
(* a request the model answered, and the ledger holds neither row.         *)
C4_Witness ==
    \E r, q \in Reqs :
        /\ Done(r) /\ MatchedBlock(r) /\ audit_ok[r] = <<FALSE>>
        /\ Done(q) /\ ModelAnswered(q) /\ audit_ok[q] = <<FALSE>>
        /\ response[q].body # <<>>
        /\ ledger = <<>>

(* C5: the prompt given to the model is the text apply returned if the     *)
(* matched action is rewrite, and the raw prompt otherwise.                *)
C5_ModelPrompt ==
    \A r \in Reqs :
        \A i \in 1..Len(model_calls[r]) :
            model_calls[r][i].prompt =
                IF action[r] = <<"rewrite">> THEN rewritten[r] ELSE prompt[r]

Rank(e) ==
    CASE e = "retrieval_start" -> 1
      [] e = "retrieval_end" -> 2
      [] e = "policy" -> 3
      [] e = "model_start" -> 4
      [] e \in {"model_ok", "model_err"} -> 5
      [] e = "audit_start" -> 6
      [] e = "audit_end" -> 7
      [] e = "alert" -> 8
      [] e = "respond" -> 9

(* Every y of the event sequence has an x before it.                       *)
Precedes(ev, x, y) ==
    \A j \in 1..Len(ev) : ev[j] \in y => \E i \in 1..(j - 1) : ev[i] \in x

(* C7: the steps of one request happen in the order retrieval, policy      *)
(* decision, model call, audit append, alert publish, each at most once    *)
(* and each started only once the one before it has finished.              *)
C7_StepOrder ==
    \A r \in Reqs :
        LET ev == events[r] IN
        /\ \A i, j \in 1..Len(ev) : i < j => Rank(ev[i]) < Rank(ev[j])
        /\ Precedes(ev, {"retrieval_start"}, {"retrieval_end"})
        /\ Precedes(ev, {"retrieval_end"}, {"policy"})
        /\ Precedes(ev, {"policy"}, {"model_start", "audit_start"})
        /\ Precedes(ev, {"model_start"}, {"model_ok", "model_err"})
        /\ ~MatchedBlock(r) => Precedes(ev, {"model_ok"}, {"audit_start"})
        /\ Precedes(ev, {"audit_start"}, {"audit_end"})
        /\ Precedes(ev, {"audit_end"}, {"alert"})

(* C7 witness: a request has gone through retrieval, the policy decision,  *)
(* the model call and the audit append, and another through the blocked    *)
(* branch.                                                                 *)
C7_Witness ==
    \E r, q \in Reqs :
        /\ events[r] = <<"retrieval_start", "retrieval_end", "policy",
                         "model_start", "model_ok", "audit_start",
                         "audit_end", "respond">>
        /\ events[q] = <<"retrieval_start", "retrieval_end", "policy",
                         "audit_start", "audit_end", "respond">>

(* The alert of a blocked prompt: format!("blocked:{}", prompt).           *)
BlockedAlert(p) == <<"b", "l", "o", "c", "k", "e", "d", ":">> \o p

(* C8: a blocked request that has answered has published exactly one       *)
(* alert "blocked:<raw prompt>"; any other request has published none.     *)
C8_AlertPublished ==
    \A r \in Reqs :
        Done(r) =>
            LET mine == {i \in 1..Len(alerts) : alerts[i].by = r} IN
            IF response[r].status = 403
            THEN /\ Cardinality(mine) = 1
                 /\ \A i \in mine : alerts[i].msg = BlockedAlert(prompt[r])
            ELSE mine = {}

(* The request has been answered with the model's response.               *)
Answered(r) == Done(r) /\ response[r].status = 200

(* C9 as stated: the tokens logged are the number of whitespace-delimited  *)
(* words of the model response.                                            *)
C9_Original ==
    \A r \in Reqs :
        Answered(r) => attempts[r][1].tokens = WordCount(resp[r])

(* C9 amended: the tokens logged are the length in bytes of the model      *)
(* response: one per character, and one more per two-byte character.       *)
C9_TokensAreBytes ==
    \A r \in Reqs :
        Answered(r) =>
            attempts[r][1].tokens =
                Len(resp[r]) + Cardinality({i \in 1..Len(resp[r]) : resp[r][i] = "é"})

(* C9 witness: a response of two words, four characters and five bytes     *)
(* has been logged.                                                        *)
C9_Witness ==
    \E r \in Reqs :
        /\ Answered(r)
        /\ resp[r] = <<"o", "k", " ", "é">>
        /\ attempts[r][1].tokens = 5

(* C10 as stated: the action logged is the matched rule's action, "allow"  *)
(* when no rule matched, and the prompt logged is the raw prompt.          *)
C10_Original ==
    \A r \in Reqs :
        Answered(r) =>
            /\ attempts[r][1].action =
                   IF MatchingPrompt(r) = {} THEN "allow"
                   ELSE rules[FirstMatching(r)].action
            /\ attempts[r][1].prompt = prompt[r]

(* C10 amended: the action logged is the matched rule's action, "pass"     *)
(* when no rule matched, and the prompt logged is the raw prompt.          *)
C10_LoggedAction ==
    \A r \in Reqs :
        Answered(r) =>
            /\ attempts[r][1].action =
                   IF MatchingPrompt(r) = {} THEN "pass"
                   ELSE rules[FirstMatching(r)].action
            /\ attempts[r][1].prompt = prompt[r]

(* C10 witness: a request no rule matched has been logged as "pass", and   *)
(* a rewritten request has been logged with its raw prompt.                *)
C10_Witness ==
    \E r, q \in Reqs :
        /\ Answered(r) /\ MatchingPrompt(r) = {} /\ attempts[r][1].action = "pass"
        /\ Answered(q) /\ attempts[q][1].action = "rewrite"
        /\ rewritten[q] # prompt[q]
        /\ attempts[q][1].prompt = prompt[q]

SearchReturned(r) == search_res[r] # <<>>

SearchFailed(r) == SearchReturned(r) /\ ~search_res[r][1].ok

HasEvent(r, e) == \E i \in 1..Len(events[r]) : events[r][i] = e

(* C11: once search has returned, with a result or with an error, the      *)
(* policy decision has been made; after an error the request goes on with  *)
(* no fragments; and a request answers 500 only when its model call        *)
(* failed, never because retrieval did.                                    *)
C11_RetrievalNeverBlocks ==
    \A r \in Reqs :
        /\ SearchReturned(r) <=> Decided(r)
        /\ SearchReturned(r) => HasEvent(r, "policy")
        /\ SearchFailed(r) =>
              /\ fragments[r] = <<>>
              /\ \A i \in 1..Len(model_calls[r]) : model_calls[r][i].context = <<>>
        /\ (Done(r) /\ response[r].status = 500) => ModelFailed(r)

(* C11 witness: a request whose retrieval failed has been answered by the  *)
(* model, and another whose retrieval failed has been blocked.             *)
C11_Witness ==
    \E r, q \in Reqs :
        /\ SearchFailed(r) /\ Done(r) /\ response[r].status = 200
        /\ SearchFailed(q) /\ Done(q) /\ response[q].status = 403

(* C20: two requests with the same raw prompt reach the same matched       *)
(* action and the same branch, blocked or not, whatever search returned    *)
(* to each of them.                                                        *)
C20_DecisionIgnoresRetrieval ==
    \A r, q \in Reqs :
        (Decided(r) /\ Decided(q) /\ prompt[r] = prompt[q]) =>
            /\ action[r] = action[q]
            /\ HasEvent(r, "model_start") <=> HasEvent(q, "model_start")
            /\ (model_calls[r] = <<>>) <=> (model_calls[q] = <<>>)
            /\ (Done(r) /\ Done(q)) =>
                  (response[r].status = 403 <=> response[q].status = 403)

(* C20 witness: two requests with the same prompt have been decided, one   *)
(* after search returned fragments and one after search failed.            *)
C20_Witness ==
    \E r, q \in Reqs :
        /\ Decided(r) /\ Decided(q)
        /\ prompt[r] = prompt[q]
        /\ fragments[r] # <<>>
        /\ SearchFailed(q)
        /\ action[r] = action[q]

----------------------------------------------------------------------------
(* The data room.                                                          *)

Range(f) == {f[i] : i \in DOMAIN f}

(* C12, as the code has it: search returns an error to its caller exactly  *)
(* when pool.get or the query fails, and a list otherwise; the empty list  *)
(* in place of the error is made by the chat handler, not by search.       *)
C12_SearchPropagatesErrors ==
    found # <<>> =>
        /\ found[1].ok <=> (found[1].fail = "none" /\ found[1].limit >= 0)
        /\ ~found[1].ok => found[1].list = <<>>

(* C12 witness: with chunks stored, search has returned an error because   *)
(* no connection could be obtained.                                        *)
C12_Witness ==
    /\ found # <<>>
    /\ chunks # <<>>
    /\ found[1].fail = "pool"
    /\ ~found[1].ok

(* C12 as stated: search never returns an error, and returns the empty     *)
(* list when an internal step fails.                                       *)
C12_Original ==
    found # <<>> =>
        /\ found[1].ok
        /\ found[1].fail # "none" => found[1].list = <<>>

(* C13: a successful search returns exactly min(limit, stored chunks)      *)
(* results, for every query and limit.                                     *)
C13_LimitBoundsResults ==
    (found # <<>> /\ found[1].ok) =>
        Len(found[1].list) = IF found[1].limit < found[1].stored
                             THEN found[1].limit ELSE found[1].stored

(* C13 witness: more chunks are stored than the limit and the search has   *)
(* returned as many results as the limit.                                  *)
C13_Witness ==
    /\ found # <<>>
    /\ found[1].ok
    /\ found[1].limit > 0
    /\ found[1].stored > found[1].limit
    /\ Len(found[1].list) = found[1].limit

ChunksOf(d) == {c \in DOMAIN chunks : chunks[c].doc_id = d}

(* The query is a word of a piece of the document of upload u.             *)
TermOf(q, u) ==
    \E i \in 1..Len(uploads[u].pieces) :
        q \in Range(split_whitespace(uploads[u].pieces[i], <<>>))

(* The last search succeeded with a positive limit and a term of the       *)
(* document of upload u, which had finished with 201 and at least one      *)
(* chunk when search was called.                                           *)
SearchedAfterUpload(u) ==
    /\ found # <<>>
    /\ found[1].ok
    /\ found[1].limit >= 1
    /\ u <= found[1].after
    /\ uploads[u].status = 201
    /\ uploads[u].chunks >= 1
    /\ TermOf(found[1].query, u)

(* The chunks of other documents that are at least as near to the query as *)
(* some chunk of document d.                                               *)
NearerThan(d, q) ==
    {c \in DOMAIN chunks :
        /\ chunks[c].doc_id # d
        /\ \E k \in ChunksOf(d) :
              distance(chunks[c].embedding, embed(q))
                  <= distance(chunks[k].embedding, embed(q))}

(* C14, as the code has it: after a successful upload of a document with   *)
(* at least one chunk, a successful search with a term of the document and *)
(* a positive limit returns a non-empty list of document ids (never chunk  *)
(* ids), each the document of a stored chunk; the list holds the uploaded  *)
(* document's id whenever at most `limit` chunks are stored, and can miss  *)
(* it only when `limit` chunks of other documents are at least as near.    *)
C14_SearchFindsDocuments ==
    \A u \in 1..Len(uploads) :
        SearchedAfterUpload(u) =>
            /\ found[1].list # <<>>
            /\ \A e \in Range(found[1].list) :
                  /\ ChunksOf(e) # {}
                  /\ \A c \in DOMAIN chunks : chunks[c].id # e
            /\ found[1].stored <= found[1].limit =>
                  uploads[u].doc_id \in Range(found[1].list)
            /\ \/ uploads[u].doc_id \in Range(found[1].list)
               \/ Cardinality(NearerThan(uploads[u].doc_id, found[1].query))
                      >= found[1].limit

(* C14 witness: a search with limit 5 after a successful upload has        *)
(* returned the id of the uploaded document.                               *)
C14_Witness ==
    \E u \in 1..Len(uploads) :
        /\ SearchedAfterUpload(u)
        /\ found[1].limit = 5
        /\ uploads[u].doc_id \in Range(found[1].list)

(* C14 as stated: the result holds the id of a chunk of the uploaded       *)
(* document.                                                               *)
C14_Original ==
    \A u \in 1..Len(uploads) :
        (SearchedAfterUpload(u) /\ found[1].limit = 5) =>
            /\ found[1].list # <<>>
            /\ \E c \in ChunksOf(uploads[u].doc_id) :
                  chunks[c].id \in Range(found[1].list)

(* A search with a term of an uploaded document has missed the document:   *)
(* the limit is smaller than the number of stored chunks.                  *)
C14_Missed ==
    \E u \in 1..Len(uploads) :
        /\ SearchedAfterUpload(u)
        /\ uploads[u].doc_id \notin Range(found[1].list)

----------------------------------------------------------------------------
(* The audit ledger, the sealer and the billing aggregator.                *)

HasSealed(row) == row.trace # <<>> /\ "sealed" \in DOMAIN row.trace[1]

IsSealed(row) == HasSealed(row) /\ row.trace[1].sealed = TRUE

(* The keys of a trace column other than sealed (none for NULL).           *)
OtherKeys(row) ==
    IF row.trace = <<>> THEN {} ELSE DOMAIN row.trace[1] \ {"sealed"}

(* Row s is row r, or row r with trace.sealed gone from absent to true.    *)
SameButSealed(r, s) ==
    /\ DOMAIN s = DOMAIN r
    /\ \A k \in DOMAIN r \ {"trace"} : s[k] = r[k]
    /\ \/ s.trace = r.trace
       \/ /\ ~HasSealed(r)
          /\ IsSealed(s)
          /\ OtherKeys(s) = OtherKeys(r)
          /\ \A k \in OtherKeys(r) : s.trace[1][k] = r.trace[1][k]

(* C15: in every step, of an append or of the sealer, the rows the ledger  *)
(* holds stay in place with every column as it was, but for trace.sealed   *)
(* going from absent to true; no row is deleted and no sealed row becomes  *)
(* unsealed.                                                               *)
C15_RowsOnlyGetSealed ==
    [][ /\ Len(ledger') >= Len(ledger)
        /\ \A i \in DOMAIN ledger :
              /\ SameButSealed(ledger[i], ledger'[i])
              /\ IsSealed(ledger[i]) => IsSealed(ledger'[i]) ]_vars

(* C15 witness: a row that carried another trace key has been sealed and   *)
(* keeps that key, and a row appended after it is not sealed yet.          *)
C15_Witness ==
    \E i, j \in DOMAIN ledger :
        /\ i < j
        /\ IsSealed(ledger[i])
        /\ "rewritten" \in DOMAIN ledger[i].trace[1]
        /\ ~HasSealed(ledger[j])

(* A step in which the sealer's UPDATE succeeds.                           *)
SealStep == seal_pc = "tick" /\ seal_pc' = "sleep"

(* C16: a successful sealer tick leaves no row without trace.sealed, rows  *)
(* with a NULL trace included, and leaves the rows that had it as they     *)
(* were; so it changes nothing on a ledger whose rows are all sealed, and  *)
(* a second UPDATE on its result changes nothing.                          *)
C16_SealIdempotent ==
    [][ SealStep =>
            /\ Len(ledger') = Len(ledger)
            /\ \A i \in DOMAIN ledger :
                  /\ IsSealed(ledger'[i])
                  /\ HasSealed(ledger[i]) => ledger'[i] = ledger[i]
            /\ (\A i \in DOMAIN ledger : HasSealed(ledger[i])) => ledger' = ledger
            /\ seal_all(ledger') = ledger' ]_vars

(* C16 witness: a sealer tick has run on a ledger with every row sealed,   *)
(* one of them a row whose trace was NULL when it was appended.            *)
C16_Witness ==
    /\ resealed
    /\ \E i \in DOMAIN ledger : IsSealed(ledger[i]) /\ OtherKeys(ledger[i]) = {}
    /\ \E i \in DOMAIN ledger : IsSealed(ledger[i]) /\ OtherKeys(ledger[i]) # {}

(* C17: after an error in a tick the job is still running: neither main    *)
(* has returned.                                                           *)
C17_JobsKeepRunning == seal_pc # "exited" /\ bill_pc # "exited"

(* A step in which the billing INSERT succeeds.                            *)
BillStep == bill_pc = "tick" /\ bill_pc' = "sleep"

OrgsOfDay(d) == {ledger[i].org_id : i \in {j \in DOMAIN ledger : ledger[j].ts_start = d}}

TokensOfDay(org, d) ==
    SumOver([i \in DOMAIN ledger |-> ledger[i].tokens],
            {i \in DOMAIN ledger : ledger[i].org_id = org /\ ledger[i].ts_start = d})

(* The usage rows of organization org and day d.                           *)
UsageCount(org, d) ==
    SumOver([u \in BagToSet(billing_usage) |-> billing_usage[u]],
            {u \in BagToSet(billing_usage) : u.org_id = org /\ u.ts = d})

(* C18: a successful billing tick adds one usage row for each organization *)
(* with an audit entry of the current day, holding the sum of the tokens   *)
(* of its entries of that day, and nothing else; no step updates or        *)
(* removes a usage row; so an organization has at most as many rows for a  *)
(* day as ticks succeeded that day, one for each tick that found an entry. *)
C18_BillingAppends ==
    /\ [](\A org \in {NilOrg, OtherOrg}, d \in Days : UsageCount(org, d) <= bill_ticks[d])
    /\ [][ /\ \A u \in BagToSet(billing_usage) :
                 /\ BagIn(u, billing_usage')
                 /\ CopiesIn(u, billing_usage') >= CopiesIn(u, billing_usage)
           /\ BillStep =>
                 billing_usage' = billing_usage (+)
                     SetToBag({[org_id |-> org, ts |-> today,
                                tokens |-> TokensOfDay(org, today)]
                                  : org \in OrgsOfDay(today)}) ]_vars

(* C18 witness: two ticks have succeeded on one day and an organization    *)
(* has two usage rows for that day, one of them holding the sum of two     *)
(* entries.                                                                *)
C18_Witness ==
    \E org \in {NilOrg, OtherOrg}, d \in Days :
        /\ bill_ticks[d] = 2
        /\ UsageCount(org, d) = 2
        /\ \E u \in BagToSet(billing_usage) :
              /\ u.org_id = org /\ u.ts = d
              /\ u.tokens = TokensOfDay(org, d)
              /\ Cardinality({i \in DOMAIN ledger : ledger[i].org_id = org
                                                    /\ ledger[i].ts_start = d}) >= 2

----------------------------------------------------------------------------
(* The alert bus.                                                          *)

(* The messages published since subscriber s subscribed.                   *)
PublishedSince(s) == SubSeq(alerts, since[s] + 1, Len(alerts))

IsPrefix(p, q) == Len(p) <= Len(q) /\ p = SubSeq(q, 1, Len(p))

(* C19: for a subscriber that has not fallen behind the buffer, the        *)
(* messages its stream has yielded followed by its pending ones are the    *)
(* messages published since it subscribed, each once and in publish order; *)
(* a cancelled subscriber has received a prefix of them; a subscriber gets *)
(* nothing published before it subscribed or to nobody.                    *)
C19_BroadcastInOrder ==
    \A s \in Subs :
        /\ (sub_state[s] = "live" /\ ~lagged[s]) =>
               received[s] \o queue[s] = PublishedSince(s)
        /\ (sub_state[s] = "cancelled" /\ ~lagged[s]) =>
               IsPrefix(received[s], PublishedSince(s))
        /\ sub_state[s] = "none" => (received[s] = <<>> /\ queue[s] = <<>>)

(* C19 witness: two subscribers are subscribed, the second one since the   *)
(* first message; the first has received all the messages published, the   *)
(* second all but the first message, and neither has lost one.             *)
C19_Witness ==
    /\ Len(alerts) = 3
    /\ \E s, t \in Subs :
          /\ sub_state[s] = "live" /\ sub_state[t] = "live"
          /\ ~lagged[s] /\ ~lagged[t]
          /\ since[s] = 0 /\ since[t] = 1
          /\ received[s] = alerts
          /\ received[t] = Tail(alerts)

----------------------------------------------------------------------------
(* C21: loading a policy is all or nothing.  When the file is read and     *)
(* parsed and some rule's pattern does not compile, load_from_path returns *)
(* an error and no engine exists; when every pattern compiles, it returns  *)
(* an engine that holds every rule of the source, in source order.         *)
C21_LoadAllOrNothing ==
    loaded # <<>> /\ source.io = "ok" =>
        LET r == loaded[1]
            bad == {i \in 1..Len(source.rules) :
                        source.rules[i].pattern \in BadPatterns}
        IN  /\ bad # {} => ~r.ok /\ r.rules = <<>> /\ rules = <<>>
            /\ bad = {} => r.ok /\ r.rules = source.rules /\ rules = source.rules

(* A load of two rules whose second pattern does not compile has failed,   *)
(* although the first rule had been compiled.                              *)
C21_Witness ==
    /\ loaded # <<>>
    /\ source.io = "ok"
    /\ Len(source.rules) = 2
    /\ source.rules[1].pattern \in Patterns
    /\ source.rules[2].pattern \in BadPatterns
    /\ ~loaded[1].ok

----------------------------------------------------------------------------
(* C22: a successful Storage::list returns every id a save before it has   *)
(* returned, no name twice; when every save before it succeeded, n saves   *)
(* give a list of length n that holds exactly the ids they returned.       *)
SavedIds(calls) == {calls[i].id : i \in {j \in DOMAIN calls : calls[j].ok}}

AllSaved(calls) == \A i \in DOMAIN calls : calls[i].ok

C22_ListIsTheSaves ==
    listed # <<>> /\ listed[1].ok =>
        LET names == listed[1].names
            calls == listed[1].after
        IN  /\ SavedIds(calls) \subseteq Range(names)
            /\ \A i, j \in DOMAIN names : names[i] = names[j] => i = j
            /\ AllSaved(calls) =>
                   /\ Len(names) = Len(calls)
                   /\ Range(names) = SavedIds(calls)

(* Two saves have succeeded and the list after them holds two names.       *)
C22_Witness ==
    /\ listed # <<>>
    /\ listed[1].ok
    /\ Len(listed[1].after) = 2
    /\ AllSaved(listed[1].after)
    /\ Len(listed[1].names) = 2

----------------------------------------------------------------------------
(* C23: under any interleaving of commits and sealer turns, a row          *)
(* committed while no turn was under way is sealed once a successful turn  *)
(* has ended after it, a row committed during a turn is sealed once two    *)
(* have; and in every run in which the sealer's UPDATE succeeds again and  *)
(* again, every committed row is eventually sealed.                        *)
SealedInTime ==
    \A i \in DOMAIN born :
        /\ ~born[i].during /\ born[i].ended >= 1 => IsSealed(ledger[i])
        /\ born[i].ended >= 2 => IsSealed(ledger[i])

KeepsTicking == []<>(seal_pc = "done")

C23_EveryRowSealed ==
    /\ []SealedInTime
    /\ KeepsTicking =>
           \A i \in 1..MaxRows :
               (Len(ledger) >= i) ~> (Len(ledger) >= i /\ IsSealed(ledger[i]))

(* A row committed during a turn, after that turn's UPDATE, was still      *)
(* unsealed when the turn ended and has been sealed by the next one; a     *)
(* row committed before a turn started was sealed when it ended.           *)
C23_Witness ==
    /\ Len(ledger) = 2
    /\ ~born[1].during /\ born[1].ended >= 1 /\ IsSealed(ledger[1])
    /\ born[2].during /\ born[2].ended = 2 /\ IsSealed(ledger[2])
    /\ seal_pc = "sleep"

(* A row committed during a turn can be unsealed when that turn ends.      *)
C23_LateRow ==
    \E i \in DOMAIN born :
        born[i].during /\ born[i].ended = 1 /\ ~IsSealed(ledger[i])

====
